---- MODULE Spec2Model ----
(***************************************************************************)
(* Model of src-tauri/src/lib.rs: the desktop shell that spawns the        *)
(* "aiyou-server" sidecar, relays its output, polls its health endpoint    *)
(* until it is ready, and exposes the check_server_health command.         *)
(*                                                                         *)
(* Tasks of the model                                                      *)
(*   supervisor  the outer async block of setup (lines 34-96): spawn,      *)
(*               store the pid, start the relay, then the readiness loop   *)
(*   relay       the inner async block (lines 48-70)                       *)
(*   bridge      one invocation at a time of check_server_health           *)
(*   child       the sidecar process, the environment that fills rx        *)
(* A task moves from one suspension point (.await) to the next in one      *)
(* action.                                                                 *)
(***************************************************************************)
EXTENDS Integers, Sequences, FiniteSets, TLC

\* ------------------------------------------------------------------ bounds
\* Number of events the sidecar puts on the channel in one run.
MaxEvents == 2

\* --------------------------------------------------------- program constants
\* for i in 0..60
MaxAttempts == 60
\* tokio::time::sleep(Duration::from_millis(500))
SleepMs == 500

VARIABLES
    app,        \* "running" | "aborted": the process as a whole
    pc,         \* where the supervisor task is
    child,      \* Option<pid> of the spawned CommandChild
    lock_held,  \* the Mutex of ServerState.child_id is locked
    child_id,   \* ServerState.child_id: Option<u32>
    writes,     \* assignments made to ServerState.child_id
    i,          \* loop variable of the readiness loop
    ready,      \* let mut ready
    probes,     \* requests the readiness loop has sent
    delays,     \* sleeps of the readiness loop that have completed
    elapsed,    \* ms the readiness loop has spent asleep (a lower bound of its run time)
    relay_pc,   \* "none" | "recv" | "done"
    sent,       \* every event the sidecar has sent on the channel, in order
    rcvd,       \* how many of them rx.recv() has returned
    closed,     \* every sender of the channel is dropped
    out,        \* lines written to standard output, in order
    err,        \* lines written to standard error, in order
    br_pc,      \* "idle" | "awaiting" | "returned": the command invocation
    br_probes,  \* requests this invocation has sent
    br_resp,    \* what its request came back with
    br_ret      \* what the invocation returned

vars == <<app, pc, child, lock_held, child_id, writes, i, ready, probes, delays, elapsed,
          relay_pc, sent, rcvd, closed, out, err, br_pc, br_probes, br_resp, br_ret>>

supVars   == <<pc, child, lock_held, child_id, writes>>
gateVars  == <<i, ready, probes, delays, elapsed>>
chanVars  == <<sent, closed>>
relayVars == <<relay_pc, rcvd>>
brVars    == <<br_pc, br_probes, br_resp, br_ret>>

\* ------------------------------------------------------------ Option, Result
None == <<>>
Some(x) == <<x>>

Ok(b) == [tag |-> "Ok", val |-> b, msg |-> ""]
Err(m) == [tag |-> "Err", val |-> FALSE, msg |-> m]
NoResult == [tag |-> "-", val |-> FALSE, msg |-> ""]

\* --------------------------------------------------------------- HTTP probe
\* What client.get(..).timeout(2 s).send().await can come back with:
\* Ok(resp) carrying a status, or Err(_) (connection refused, timed out).
Statuses == {200, 404, 500}
Responses ==
    {[ok |-> TRUE, status |-> s, error |-> ""] : s \in Statuses}
    \cup {[ok |-> FALSE, status |-> 0, error |-> e] : e \in {"connect", "timeout"}}
NoResponse == [ok |-> FALSE, status |-> 0, error |-> "-"]

\* StatusCode::is_success: 200..=299
is_success(status) == 200 <= status /\ status <= 299

\* Pids the operating system may give the sidecar.
Pids == {4711}

\* What a panic does to the process: the default profile unwinds (the runtime
\* catches the panic at the task boundary and only the task ends), a profile
\* with panic = "abort" ends the process.
PanicStrategies == {"unwind", "abort"}

\* ------------------------------------------------------------------ logging
\* One line of a sink: the tag and fixed text of the format string, the text
\* substituted for a string argument and the numbers substituted for the others.
LogLine(tag, fmt, text, args) == [tag |-> tag, fmt |-> fmt, text |-> text, args |-> args]

\* {:?} of an Option<i32>: "None" or "Some(n)"
DebugOption(o) == IF o = None THEN <<0>> ELSE <<1, o[1]>>

\* ------------------------------------------------------------ UTF-8 decoding
Replacement == 65533
IsCont(b) == 128 <= b /\ b <= 191

\* The second byte a three- or four-byte lead admits.
SecondOk(b1, b2) ==
    CASE b1 = 224 -> 160 <= b2 /\ b2 <= 191
      [] b1 = 237 -> 128 <= b2 /\ b2 <= 159
      [] b1 = 240 -> 144 <= b2 /\ b2 <= 191
      [] b1 = 244 -> 128 <= b2 /\ b2 <= 143
      [] OTHER -> IsCont(b2)

\* The first character of a non-empty byte string: how many bytes it takes and
\* its code point, U+FFFD for a maximal invalid prefix.
Utf8First(b) ==
    LET b1 == b[1]
        n  == Len(b)
    IN  CASE b1 < 128 -> [len |-> 1, cp |-> b1]
          [] 194 <= b1 /\ b1 <= 223 ->
                IF n >= 2 /\ IsCont(b[2])
                THEN [len |-> 2, cp |-> (b1 - 192) * 64 + (b[2] - 128)]
                ELSE [len |-> 1, cp |-> Replacement]
          [] 224 <= b1 /\ b1 <= 239 ->
                IF n < 2 \/ ~SecondOk(b1, b[2]) THEN [len |-> 1, cp |-> Replacement]
                ELSE IF n < 3 \/ ~IsCont(b[3]) THEN [len |-> 2, cp |-> Replacement]
                ELSE [len |-> 3,
                      cp |-> (b1 - 224) * 4096 + (b[2] - 128) * 64 + (b[3] - 128)]
          [] 240 <= b1 /\ b1 <= 244 ->
                IF n < 2 \/ ~SecondOk(b1, b[2]) THEN [len |-> 1, cp |-> Replacement]
                ELSE IF n < 3 \/ ~IsCont(b[3]) THEN [len |-> 2, cp |-> Replacement]
                ELSE IF n < 4 \/ ~IsCont(b[4]) THEN [len |-> 3, cp |-> Replacement]
                ELSE [len |-> 4,
                      cp |-> (b1 - 240) * 262144 + (b[2] - 128) * 4096
                             + (b[3] - 128) * 64 + (b[4] - 128)]
          [] OTHER -> [len |-> 1, cp |-> Replacement]

\* String::from_utf8_lossy: the characters of a byte string, every invalid
\* sequence replaced by U+FFFD.
RECURSIVE from_utf8_lossy(_)
from_utf8_lossy(b) ==
    IF b = <<>> THEN <<>>
    ELSE LET c == Utf8First(b)
         IN  <<c.cp>> \o from_utf8_lossy(SubSeq(b, c.len + 1, Len(b)))

\* ------------------------------------------------------------ channel events
\* CommandEvent: Stdout(Vec<u8>), Stderr(Vec<u8>), Terminated(payload) and the
\* kinds the relay has no arm for (Error).
Kinds == {"Stdout", "Stderr", "Terminated", "Error"}

\* The relay never inspects the bytes of a line, so the k-th event of a run
\* carries bytes that tell it apart from the others: plain ASCII, a two-byte
\* character, or an invalid byte, each followed by the digit k.
LineAt(k) ==
    CASE k % 3 = 1 -> <<72, 48 + k>>
      [] k % 3 = 2 -> <<195, 169, 48 + k>>
      [] OTHER     -> <<255, 48 + k>>

\* TerminatedPayload { code, signal }: an exit code, or the signal that killed it.
PayloadAt(k) ==
    IF k % 2 = 1 THEN [code |-> Some(k), signal |-> None]
                 ELSE [code |-> None, signal |-> Some(9)]

Event(kind, k) ==
    [kind   |-> kind,
     line   |-> IF kind \in {"Stdout", "Stderr"} THEN LineAt(k) ELSE <<>>,
     code   |-> IF kind = "Terminated" THEN PayloadAt(k).code ELSE None,
     signal |-> IF kind = "Terminated" THEN PayloadAt(k).signal ELSE None]

\* What is still queued for rx.recv().
rx == SubSeq(sent, rcvd + 1, Len(sent))

\* ---------------------------------------------------------------------- Init
Init ==
    /\ app = "running"
    /\ pc = "start"
    /\ child = None
    /\ lock_held = FALSE
    /\ child_id = None
    /\ writes = 0
    /\ i = 0
    /\ ready = FALSE
    /\ probes = 0
    /\ delays = 0
    /\ elapsed = 0
    /\ relay_pc = "none"
    /\ sent = <<>>
    /\ rcvd = 0
    /\ closed = FALSE
    /\ out = <<>>
    /\ err = <<>>
    /\ br_pc = "idle"
    /\ br_probes = 0
    /\ br_resp = NoResponse
    /\ br_ret = NoResult

\* --------------------------------------------------------------- supervisor
\* .expect(..) on an Err: the panic message goes to standard error, then the
\* task unwinds or the process aborts.
Panic(message, strategy) ==
    /\ err' = Append(err, LogLine("panic", message, <<>>, <<>>))
    /\ IF strategy = "abort"
       THEN app' = "aborted" /\ pc' = pc
       ELSE app' = app /\ pc' = "panicked"
    /\ UNCHANGED <<child, lock_held, child_id, writes, out>>
    /\ UNCHANGED <<gateVars, chanVars, relayVars, brVars>>

\* shell.sidecar("aiyou-server") returns Ok
CreateSidecar ==
    /\ app = "running" /\ pc = "start"
    /\ pc' = "spawn"
    /\ UNCHANGED <<app, child, lock_held, child_id, writes, out, err>>
    /\ UNCHANGED <<gateVars, chanVars, relayVars, brVars>>

\* shell.sidecar("aiyou-server") returns Err
SidecarFail ==
    /\ app = "running" /\ pc = "start"
    /\ \E s \in PanicStrategies : Panic("failed to create sidecar command", s)

\* .spawn() returns Ok((rx, child))
Spawn(p) ==
    /\ app = "running" /\ pc = "spawn"
    /\ child' = Some(p)
    /\ pc' = "lock"
    /\ UNCHANGED <<app, lock_held, child_id, writes, out, err>>
    /\ UNCHANGED <<gateVars, chanVars, relayVars, brVars>>

\* .spawn() returns Err
SpawnFail ==
    /\ app = "running" /\ pc = "spawn"
    /\ \E s \in PanicStrategies : Panic("failed to spawn sidecar", s)

\* state.child_id.lock().unwrap()
LockState ==
    /\ app = "running" /\ pc = "lock"
    /\ ~lock_held
    /\ lock_held' = TRUE
    /\ pc' = "store"
    /\ UNCHANGED <<app, child, child_id, writes, out, err>>
    /\ UNCHANGED <<gateVars, chanVars, relayVars, brVars>>

\* Faulty variant of StorePid: the guard is bound to a local and outlives the
\* statement, so the lock stays held across the awaits that follow.
StorePidKeepsGuard ==
    /\ app = "running" /\ pc = "store"
    /\ child_id' = Some(child[1])
    /\ writes' = writes + 1
    /\ lock_held' = TRUE
    /\ pc' = "spawn_relay"
    /\ UNCHANGED <<app, child, out, err>>
    /\ UNCHANGED <<gateVars, chanVars, relayVars, brVars>>

\* Faulty variant of StorePid: the pid is assigned to a copy, the slot is left
\* as it was.
StorePidToCopy ==
    /\ app = "running" /\ pc = "store"
    /\ lock_held' = FALSE
    /\ pc' = "spawn_relay"
    /\ UNCHANGED <<app, child, child_id, writes, out, err>>
    /\ UNCHANGED <<gateVars, chanVars, relayVars, brVars>>

\* *guard = Some(child.pid()); the guard is dropped at the end of the statement
StorePid ==
    /\ app = "running" /\ pc = "store"
    /\ child_id' = Some(child[1])
    /\ writes' = writes + 1
    /\ lock_held' = FALSE
    /\ pc' = "spawn_relay"
    /\ UNCHANGED <<app, child, out, err>>
    /\ UNCHANGED <<gateVars, chanVars, relayVars, brVars>>

\* tauri::async_runtime::spawn(async move { while let Some(event) = ... })
SpawnRelay ==
    /\ app = "running" /\ pc = "spawn_relay"
    /\ relay_pc' = "recv"
    /\ pc' = "gate"
    /\ UNCHANGED <<app, child, lock_held, child_id, writes, out, err, rcvd>>
    /\ UNCHANGED <<gateVars, chanVars, brVars>>

\* ------------------------------------------------------------ readiness loop
\* for i in 0..60 taking its next value n: the body sends the request and
\* suspends on it, or the range is exhausted and the loop ends.
LoopHead(n) ==
    IF n < MaxAttempts
    THEN i' = n /\ probes' = probes + 1 /\ pc' = "probing"
    ELSE i' = i /\ probes' = probes /\ pc' = "after"

\* Faulty variant of GateEnter: the supervisor awaits the relay task before it
\* starts to poll.
GateEnterAfterRelay ==
    /\ app = "running" /\ pc = "gate"
    /\ relay_pc = "done"
    /\ LoopHead(0)
    /\ UNCHANGED <<app, child, lock_held, child_id, writes, ready, delays, elapsed, out, err>>
    /\ UNCHANGED <<chanVars, relayVars, brVars>>

\* let client = ..; let mut ready = false; first iteration of the loop
GateEnter ==
    /\ app = "running" /\ pc = "gate"
    /\ LoopHead(0)
    /\ UNCHANGED <<app, child, lock_held, child_id, writes, ready, delays, elapsed, out, err>>
    /\ UNCHANGED <<chanVars, relayVars, brVars>>

\* Faulty variant of AttemptNumber: prints the loop variable itself.
AttemptNumberZeroBased(n) == n

\* i + 1 in "Server ready after {} attempts"
AttemptNumber(n) == n + 1

\* Ok(resp) if resp.status().is_success()
GateArmReady(resp) == resp.ok /\ is_success(resp.status)

\* Faulty variant of GateBreak: no break, the loop goes on to its next value.
GateNoBreak == LoopHead(i + 1)

\* break
GateBreak == pc' = "after" /\ UNCHANGED <<i, probes>>

\* Faulty variant of GateRetry: the sleep after the last attempt is skipped.
GateRetrySkipsLast ==
    IF i + 1 < MaxAttempts
    THEN pc' = "sleeping" /\ UNCHANGED <<i, probes>>
    ELSE LoopHead(i + 1)

\* the arm _ => { sleep(500 ms).await }: suspend on the timer
GateRetry == pc' = "sleeping" /\ UNCHANGED <<i, probes>>

\* the request of iteration i comes back with resp
GateResponse(resp) ==
    /\ app = "running" /\ pc = "probing"
    /\ IF GateArmReady(resp)
       THEN /\ out' = Append(out, LogLine("[tauri]", "Server ready after {} attempts",
                                          <<>>, <<AttemptNumber(i)>>))
            /\ ready' = TRUE
            /\ GateBreak
       ELSE /\ GateRetry
            /\ UNCHANGED <<out, ready>>
    /\ UNCHANGED <<app, child, lock_held, child_id, writes, delays, elapsed, err>>
    /\ UNCHANGED <<chanVars, relayVars, brVars>>

\* the timer fires after 500 ms; the loop takes its next value
GateWake ==
    /\ app = "running" /\ pc = "sleeping"
    /\ delays' = delays + 1
    /\ elapsed' = elapsed + SleepMs
    /\ LoopHead(i + 1)
    /\ UNCHANGED <<app, child, lock_held, child_id, writes, ready, out, err>>
    /\ UNCHANGED <<chanVars, relayVars, brVars>>

\* Faulty variant of ReportsFailure: the failure is reported whatever ready is.
ReportsFailureAlways(r) == TRUE

\* Faulty variant of GateReport: the report of a timeout also clears the slot.
GateReportClearsPid ==
    /\ app = "running" /\ pc = "after"
    /\ err' = IF ~ready
              THEN Append(err, LogLine("[tauri]", "Server failed to start within 30 seconds",
                                       <<>>, <<>>))
              ELSE err
    /\ child_id' = IF ~ready THEN None ELSE child_id
    /\ writes' = IF ~ready THEN writes + 1 ELSE writes
    /\ pc' = "done"
    /\ UNCHANGED <<app, child, lock_held, out>>
    /\ UNCHANGED <<gateVars, chanVars, relayVars, brVars>>

\* if !ready
ReportsFailure(r) == ~r

\* Faulty variant of GateReport: the timeout ends the process after its report.
GateReportFatal ==
    /\ app = "running" /\ pc = "after"
    /\ err' = IF ~ready
              THEN Append(err, LogLine("[tauri]", "Server failed to start within 30 seconds",
                                       <<>>, <<>>))
              ELSE err
    /\ app' = IF ~ready THEN "aborted" ELSE app
    /\ pc' = "done"
    /\ UNCHANGED <<child, lock_held, child_id, writes, out>>
    /\ UNCHANGED <<gateVars, chanVars, relayVars, brVars>>

\* if !ready { eprintln!(..) }, then the task ends
GateReport ==
    /\ app = "running" /\ pc = "after"
    /\ err' = IF ReportsFailure(ready)
              THEN Append(err, LogLine("[tauri]", "Server failed to start within 30 seconds",
                                       <<>>, <<>>))
              ELSE err
    /\ pc' = "done"
    /\ UNCHANGED <<app, child, lock_held, child_id, writes, out>>
    /\ UNCHANGED <<gateVars, chanVars, relayVars, brVars>>

\* ------------------------------------------------------------------ sidecar
\* The running sidecar sends its next event on the channel.
ChildEmit(kind) ==
    /\ app = "running" /\ child # None
    /\ ~closed
    /\ Len(sent) < MaxEvents
    /\ sent' = Append(sent, Event(kind, Len(sent) + 1))
    /\ UNCHANGED <<app, closed, out, err>>
    /\ UNCHANGED <<supVars, gateVars, relayVars, brVars>>

\* The last sender of the channel is dropped.
ChildClose ==
    /\ app = "running" /\ child # None
    /\ ~closed
    /\ closed' = TRUE
    /\ UNCHANGED <<app, sent, out, err>>
    /\ UNCHANGED <<supVars, gateVars, relayVars, brVars>>

\* -------------------------------------------------------------------- relay
\* Faulty variant of RelaySink: the two macros are exchanged.
RelaySinkSwapped(kind) == IF kind = "Stdout" THEN "err" ELSE "out"

\* println! for the Stdout arm, eprintln! for the others
RelaySink(kind) == IF kind = "Stdout" THEN "out" ELSE "err"

\* the tag of the format string of each arm
RelayTag(kind) ==
    CASE kind = "Stdout" -> "[server]"
      [] kind = "Stderr" -> "[server:err]"
      [] kind = "Terminated" -> "[server]"

\* the line an arm prints for event e
RelayLine(e) ==
    IF e.kind = "Terminated"
    THEN LogLine(RelayTag(e.kind), "terminated with code {:?}, signal {:?}", <<>>,
                 DebugOption(e.code) \o DebugOption(e.signal))
    ELSE LogLine(RelayTag(e.kind), "{}", from_utf8_lossy(e.line), <<>>)

\* the arms that print
RelayPrints(kind) == kind \in {"Stdout", "Stderr", "Terminated"}

\* Faulty variant of RelayAfter: the Terminated arm does not break.
RelayAfterNoBreak(kind) == "recv"

\* Faulty variant of RelayAfter: an event without an arm of its own ends the loop.
RelayAfterStopsOnUnknown(kind) ==
    IF kind \in {"Terminated", "Error"} THEN "done" ELSE "recv"

\* break in the Terminated arm; every other arm falls back to rx.recv().await
RelayAfter(kind) == IF kind = "Terminated" THEN "done" ELSE "recv"

\* Faulty variant of RelayRecv: the Terminated arm also stops the readiness
\* loop of the supervisor task.
RelayRecvCancelsGate ==
    /\ app = "running" /\ relay_pc = "recv"
    /\ rcvd < Len(sent)
    /\ LET e == sent[rcvd + 1]
           sink == RelaySink(e.kind)
       IN  /\ rcvd' = rcvd + 1
           /\ out' = IF RelayPrints(e.kind) /\ sink = "out"
                     THEN Append(out, RelayLine(e)) ELSE out
           /\ err' = IF RelayPrints(e.kind) /\ sink = "err"
                     THEN Append(err, RelayLine(e)) ELSE err
           /\ relay_pc' = RelayAfter(e.kind)
           /\ pc' = IF e.kind = "Terminated" /\ pc \in {"probing", "sleeping"}
                    THEN "done" ELSE pc
    /\ UNCHANGED <<app, child, lock_held, child_id, writes>>
    /\ UNCHANGED <<gateVars, chanVars, brVars>>

\* rx.recv().await returns Some(event); the match handles it
RelayRecv ==
    /\ app = "running" /\ relay_pc = "recv"
    /\ rcvd < Len(sent)
    /\ LET e == sent[rcvd + 1]
           sink == RelaySink(e.kind)
       IN  /\ rcvd' = rcvd + 1
           /\ out' = IF RelayPrints(e.kind) /\ sink = "out"
                     THEN Append(out, RelayLine(e)) ELSE out
           /\ err' = IF RelayPrints(e.kind) /\ sink = "err"
                     THEN Append(err, RelayLine(e)) ELSE err
           /\ relay_pc' = RelayAfter(e.kind)
    /\ UNCHANGED <<app>>
    /\ UNCHANGED <<supVars, gateVars, chanVars, brVars>>

\* rx.recv().await returns None: the channel is closed and drained
RelayEnd ==
    /\ app = "running" /\ relay_pc = "recv"
    /\ rcvd = Len(sent) /\ closed
    /\ relay_pc' = "done"
    /\ UNCHANGED <<app, rcvd, out, err>>
    /\ UNCHANGED <<supVars, gateVars, chanVars, brVars>>

\* ------------------------------------------------------ check_server_health
\* Faulty variant of check_server_health: the transport error is propagated.
check_server_health_propagates(resp) ==
    IF resp.ok THEN Ok(is_success(resp.status)) ELSE Err(resp.error)

\* Faulty variant of check_server_health: the readiness loop's flag is returned.
check_server_health_cached(resp) == Ok(ready)

\* match client.get(..).timeout(..).send().await { Ok(resp) => .., Err(_) => .. }
check_server_health(resp) ==
    IF resp.ok THEN Ok(is_success(resp.status)) ELSE Ok(FALSE)

\* The front end invokes the command: a client is built, the request is sent
\* and the invocation suspends on it.
BridgeInvoke ==
    /\ app = "running" /\ br_pc \in {"idle", "returned"}
    /\ br_pc' = "awaiting"
    /\ br_probes' = 1
    /\ br_resp' = NoResponse
    /\ br_ret' = NoResult
    /\ UNCHANGED <<app, out, err>>
    /\ UNCHANGED <<supVars, gateVars, chanVars, relayVars>>

\* The request comes back with resp and the command returns.
BridgeReturn(resp) ==
    /\ app = "running" /\ br_pc = "awaiting"
    /\ br_resp' = resp
    /\ br_ret' = check_server_health(resp)
    /\ br_pc' = "returned"
    /\ UNCHANGED <<app, br_probes, out, err>>
    /\ UNCHANGED <<supVars, gateVars, chanVars, relayVars>>

\* --------------------------------------------------------------------- Next
Next ==
    \/ CreateSidecar
    \/ SidecarFail
    \/ \E p \in Pids : Spawn(p)
    \/ SpawnFail
    \/ LockState
    \/ StorePid
    \/ SpawnRelay
    \/ GateEnter
    \/ \E resp \in Responses : GateResponse(resp)
    \/ GateWake
    \/ GateReport
    \/ \E kind \in Kinds : ChildEmit(kind)
    \/ ChildClose
    \/ RelayRecv
    \/ RelayEnd
    \/ BridgeInvoke
    \/ \E resp \in Responses : BridgeReturn(resp)

Spec == Init /\ [][Next]_vars

\* The steps of the supervisor, the sidecar and the relay.  An invocation of
\* check_server_health shares no variable with them (BridgeInvoke and
\* BridgeReturn leave all of theirs unchanged), so the behaviours in which the
\* readiness loop must make progress are taken without it.
FairNext ==
    \/ CreateSidecar
    \/ SidecarFail
    \/ \E p \in Pids : Spawn(p)
    \/ SpawnFail
    \/ LockState
    \/ StorePid
    \/ SpawnRelay
    \/ GateEnter
    \/ \E resp \in Responses : GateResponse(resp)
    \/ GateWake
    \/ GateReport
    \/ \E kind \in Kinds : ChildEmit(kind)
    \/ ChildClose
    \/ RelayRecv
    \/ RelayEnd

\* Every request and every timer of the readiness loop completes, and the
\* runtime keeps running the supervisor task when it can.  Nothing is asked of
\* the sidecar or of the relay.
FairSpec ==
    /\ Init /\ [][FairNext]_vars
    /\ WF_vars(GateEnter)
    /\ WF_vars(\E resp \in Responses : GateResponse(resp))
    /\ WF_vars(GateWake)
    /\ WF_vars(GateReport)

\* ===================================================================== claims
\* Lines of the sinks, told apart by the format string that wrote them.
IsReadyLine(l)  == l.tag = "[tauri]" /\ l.fmt = "Server ready after {} attempts"
IsFailedLine(l) == l.tag = "[tauri]" /\ l.fmt = "Server failed to start within 30 seconds"
IsGateLine(l)   == l.tag = "[tauri]"
IsTermLine(l)   == l.fmt = "terminated with code {:?}, signal {:?}"
IsForwarded(l)  == l.fmt = "{}"

ReadyLines  == SelectSeq(out, IsReadyLine) \o SelectSeq(err, IsReadyLine)
FailedLines == SelectSeq(out, IsFailedLine) \o SelectSeq(err, IsFailedLine)
GateLines   == SelectSeq(out, IsGateLine) \o SelectSeq(err, IsGateLine)

\* ------------------------------------------------------------------------ C1
\* C1: whatever its request comes back with, check_server_health returns the
\* success variant: Ok(true) for a response with a 2xx status, Ok(false) for a
\* response with another status, a refused connection or a timeout; never Err.
C1_HealthAlwaysOk ==
    br_pc = "returned" =>
        /\ br_ret.tag = "Ok"
        /\ br_ret.tag # "Err"
        /\ (br_resp.ok /\ br_resp.status \in 200..299) => br_ret.val = TRUE
        /\ (br_resp.ok /\ br_resp.status \notin 200..299) => br_ret.val = FALSE
        /\ (~br_resp.ok) => br_ret.val = FALSE

\* A timed-out request has been absorbed into Ok(false).
C1_Witness ==
    /\ br_pc = "returned"
    /\ ~br_resp.ok /\ br_resp.error = "timeout"
    /\ br_ret = Ok(FALSE)

\* ------------------------------------------------------------------------ C2
\* C2: the readiness loop sends at most 60 requests and prints at most one
\* success line; once attempt k has succeeded no later attempt is made (the
\* number of requests stays k and the loop is left).
C2_AtMostSixtyProbes ==
    /\ probes <= 60
    /\ Len(ReadyLines) <= 1
    /\ ready => /\ probes = i + 1
                /\ pc \in {"after", "done"}
                /\ Len(ReadyLines) = 1

\* The third attempt succeeded and the task has ended with three requests sent.
C2_Witness ==
    /\ pc = "done" /\ ready
    /\ probes = 3
    /\ Len(ReadyLines) = 1

\* ------------------------------------------------------------------------ C3
\* C3: the loop is left without success only after 60 failed requests, each
\* followed by its 500 ms sleep (60 sleeps, at least 60 x 500 ms asleep), and
\* the timeout path prints exactly one failure line and no success line.
C3_TimeoutAfterSixtyDelays ==
    /\ Len(FailedLines) <= 1
    /\ (pc = "after" /\ ~ready) =>
            probes = 60 /\ delays = 60 /\ elapsed >= 60 * 500
    /\ (pc = "done" /\ ~ready) =>
            /\ probes = 60 /\ delays = 60 /\ elapsed >= 60 * 500
            /\ Len(FailedLines) = 1
            /\ Len(ReadyLines) = 0
    /\ Len(FailedLines) = 1 => (pc = "done" /\ ~ready)

\* The timeout has been reported.
C3_Witness ==
    /\ pc = "done" /\ ~ready
    /\ Len(FailedLines) = 1
    /\ delays = 60

\* ------------------------------------------------------------------------ C4
\* C4: when the first k-1 requests fail and the k-th succeeds (1 <= k <= 60),
\* the success line carries exactly k, k requests were sent and k-1 sleeps
\* taken, and polling has stopped.
C4_ReadyAfterKAttempts ==
    ready =>
        /\ probes \in 1..60
        /\ delays = probes - 1
        /\ ReadyLines = <<LogLine("[tauri]", "Server ready after {} attempts",
                                  <<>>, <<probes>>)>>
        /\ pc \in {"after", "done"}

\* Success on the fifth request: "Server ready after 5 attempts".
C4_Witness ==
    /\ ready
    /\ probes = 5 /\ delays = 4
    /\ Len(ReadyLines) = 1 /\ ReadyLines[1].args = <<5>>

\* ------------------------------------------------------------------------ C5
\* The three states of the readiness loop.
GatePolling   == pc \in {"probing", "sleeping", "after"} /\ ~ready
GateSucceeded == ready
GateTimedOut  == pc = "done" /\ ~ready
GateTerminal  == GateSucceeded \/ GateTimedOut

\* C5: the readiness loop is a machine of three states, polling, succeeded and
\* timed-out.  When every request and sleep returns it leaves polling for
\* succeeded or timed-out; both are terminal (no request, sleep or line of the
\* loop follows) and they are never both reached.
C5_GateThreeStates ==
    /\ [](~(GateSucceeded /\ GateTimedOut))
    /\ [](~(Len(ReadyLines) > 0 /\ Len(FailedLines) > 0))
    /\ [](GateSucceeded => Len(ReadyLines) = 1)
    /\ [](GateTimedOut => Len(FailedLines) = 1)
    /\ [][GateTerminal =>
            /\ probes' = probes
            /\ delays' = delays
            /\ GateLines' = GateLines
            /\ GateSucceeded' = GateSucceeded
            /\ GateTimedOut' = GateTimedOut]_vars
    /\ (GatePolling ~> GateTerminal)

\* The loop has ended in timed-out after the relay has ended too.
C5_Witness ==
    /\ GateTimedOut
    /\ ~GateSucceeded
    /\ relay_pc = "done"

\* ------------------------------------------------------------------------ C6
\* The events rx.recv() has returned so far.
Consumed == SubSeq(sent, 1, rcvd)

IsStdout(e) == e.kind = "Stdout"
IsStderr(e) == e.kind = "Stderr"
IsTerminated(e) == e.kind = "Terminated"

\* The line a sink must hold for each of the events es, in their order.
Forwarded(es, tag) ==
    [k \in 1..Len(es) |-> LogLine(tag, "{}", from_utf8_lossy(es[k].line), <<>>)]

\* C6: of the events received, every standard-output line is on standard
\* output with the tag [server] and every error-output line is on standard
\* error with the tag [server:err], each once and in the order received; no
\* line is dropped, duplicated, reordered or on the wrong sink, and the relay
\* does not end while an event sent before the termination event is unread.
C6_RelayForwardsInOrder ==
    /\ SelectSeq(out, IsForwarded) = Forwarded(SelectSeq(Consumed, IsStdout), "[server]")
    /\ SelectSeq(err, IsForwarded) = Forwarded(SelectSeq(Consumed, IsStderr), "[server:err]")
    /\ \A k \in 1..Len(out) : IsForwarded(out[k]) \/ IsGateLine(out[k])
    /\ relay_pc = "done" => (rcvd = Len(sent) \/ IsTerminated(sent[rcvd]))
    /\ relay_pc = "none" => rcvd = 0

\* Two standard-output lines have been forwarded, the first an invalid byte
\* string.
C6_Witness ==
    /\ rcvd = 2
    /\ IsStdout(sent[1]) /\ IsStdout(sent[2])
    /\ Len(SelectSeq(out, IsForwarded)) = 2
    /\ out[1].tag = "[server]"

\* ------------------------------------------------------------------------ C7
\* A termination event has been received.
TerminatedSeen == \E k \in 1..rcvd : IsTerminated(sent[k])

\* C7: on a termination event the relay prints the exit code and signal once
\* and ends: the termination event is the last event it receives, so no line
\* that is on the channel after it reaches a sink.
C7_NothingAfterTermination ==
    /\ Len(SelectSeq(err, IsTermLine)) <= 1
    /\ Len(SelectSeq(out, IsTermLine)) = 0
    /\ TerminatedSeen =>
        /\ relay_pc = "done"
        /\ IsTerminated(sent[rcvd])
        /\ \A k \in 1..(rcvd - 1) : ~IsTerminated(sent[k])
        /\ SelectSeq(err, IsTermLine) =
              <<LogLine("[server]", "terminated with code {:?}, signal {:?}", <<>>,
                        DebugOption(sent[rcvd].code) \o DebugOption(sent[rcvd].signal))>>
        /\ Len(SelectSeq(out, IsForwarded)) + Len(SelectSeq(err, IsForwarded))
              = Len(SelectSeq(SubSeq(sent, 1, rcvd - 1), IsStdout))
                + Len(SelectSeq(SubSeq(sent, 1, rcvd - 1), IsStderr))
    /\ ~TerminatedSeen => Len(SelectSeq(err, IsTermLine)) = 0

\* The sidecar sent a line after its termination event; the relay has ended
\* and the line is on no sink.
C7_Witness ==
    /\ Len(sent) = 2
    /\ IsTerminated(sent[1]) /\ IsStdout(sent[2])
    /\ relay_pc = "done" /\ rcvd = 1
    /\ Len(SelectSeq(out, IsForwarded)) = 0
    /\ Len(SelectSeq(err, IsTermLine)) = 1

\* ------------------------------------------------------------------------ C8
\* C8: the slot child_id is write-once: empty at first, assigned at most once,
\* by the supervisor's store after a successful spawn, and from then on it
\* holds the pid of the child for good; no step of the command, the readiness
\* loop or the relay assigns it.
C8_SlotWriteOnce ==
    /\ [](writes <= 1)
    /\ [](writes = 0 => child_id = None)
    /\ [](writes = 1 => (child # None /\ child_id = child))
    /\ [][(child_id' # child_id \/ writes' # writes) =>
            /\ pc = "store" /\ pc' = "spawn_relay"
            /\ child # None
            /\ child_id = None /\ child_id' = child
            /\ UNCHANGED <<gateVars, relayVars, brVars>>]_vars
    /\ [][child_id # None => child_id' = child_id]_vars

\* The slot holds the pid while the loop has timed out, the relay has ended
\* and the command has returned.
C8_Witness ==
    /\ child_id = Some(4711)
    /\ writes = 1
    /\ pc = "done" /\ relay_pc = "done" /\ br_pc = "returned"

\* ------------------------------------------------------------------------ C9
\* The sidecar could not be created or spawned.
StartFailed == pc = "panicked" \/ app = "aborted"

\* C9: when the sidecar cannot be created or spawned the application aborts:
\* it does not go on running, so after the failure no request of the readiness
\* loop, no relayed line and no invocation of the command occurs, and the slot
\* is never set.
C9_AbortsOnSpawnFailure ==
    /\ [](StartFailed => app = "aborted")
    /\ [](StartFailed => (probes = 0 /\ relay_pc = "none" /\ child_id = None))
    /\ [][StartFailed => UNCHANGED <<brVars, gateVars, relayVars, child_id, out>>]_vars

\* ----------------------------------------------------------------------- C10
\* C10: an invocation of the command, wherever the readiness loop stands,
\* sends exactly one request of its own and returns what that request yields:
\* the value returned is a function of that response alone, not of the loop's
\* ready flag, its position or its history.
C10_BridgeProbesItself ==
    /\ br_pc = "awaiting" => br_probes = 1
    /\ br_pc = "returned" =>
        /\ br_probes = 1
        /\ br_resp \in Responses
        /\ br_ret = Ok(br_resp.ok /\ is_success(br_resp.status))

\* The loop has timed out (ready is false) and a later invocation returns true.
C10_Witness ==
    /\ pc = "done" /\ ~ready
    /\ br_pc = "returned"
    /\ br_resp.ok /\ br_resp.status = 200
    /\ br_ret = Ok(TRUE)

\* ----------------------------------------------------------------------- C11
\* The supervisor task is suspended on a request or on the timer.
GateSuspended == pc \in {"probing", "sleeping"}

\* C11 as stated: in no reachable state is the lock held while a task is
\* suspended on a request, a sleep or the next output event.
C11_LockNeverHeldWhileAnyTaskSuspended ==
    lock_held =>
        /\ ~GateSuspended
        /\ relay_pc # "recv"
        /\ br_pc # "awaiting"

\* C11 as amended: the lock is taken only for the single store and released by
\* it; while it is held its holder, the supervisor, stands at the store, the
\* relay is not started and the readiness loop has not begun, so neither of
\* the tasks that run after the store is ever suspended with the lock held,
\* and the store that releases the lock can always be taken.  (An invocation
\* of the command, which never takes the lock, may be suspended on its own
\* request meanwhile.)
C11_LockHeldOnlyForTheStore ==
    /\ [](lock_held =>
            /\ pc = "store"
            /\ relay_pc = "none"
            /\ probes = 0 /\ delays = 0
            /\ writes = 0
            /\ ENABLED StorePid)
    /\ [](GateSuspended => ~lock_held)
    /\ [](relay_pc = "recv" => ~lock_held)
    /\ [][lock_held /\ pc' # pc => ~lock_held']_vars
    /\ [][(~lock_held /\ lock_held') => (pc = "lock" /\ pc' = "store")]_vars

\* The lock is held for the store while an invocation of the command is
\* suspended on its request.
C11_Witness ==
    /\ lock_held
    /\ pc = "store"
    /\ br_pc = "awaiting"

\* ----------------------------------------------------------------------- C12
\* C12: a timeout of the readiness loop is not fatal.  Once the failure line
\* is printed the application is still running: the relay, unless it has
\* ended, receives and forwards what is queued, the command can be invoked,
\* a pending invocation returns, and what it returns is Ok of a boolean.
C12_TimeoutNotFatal ==
    GateTimedOut =>
        /\ app = "running"
        /\ Len(FailedLines) = 1
        /\ (relay_pc = "recv" /\ rcvd < Len(sent)) => ENABLED RelayRecv
        /\ br_pc \in {"idle", "returned"} => ENABLED BridgeInvoke
        /\ br_pc = "awaiting" => ENABLED (\E resp \in Responses : BridgeReturn(resp))
        /\ br_pc = "returned" => br_ret \in {Ok(TRUE), Ok(FALSE)}

\* On standard error a relayed line follows the failure line of the loop, and
\* an invocation of the command made since is about to return.
C12_Witness ==
    /\ GateTimedOut
    /\ \E j \in 1..Len(err) : \E k \in (j + 1)..Len(err) :
            IsFailedLine(err[j]) /\ IsForwarded(err[k])
    /\ br_pc = "awaiting"

\* ----------------------------------------------------------------------- C13
\* C13: the end of the sidecar is only reported.  The sidecar is spawned at
\* most once in a run (the handle, once set, is never replaced, and the
\* supervisor never returns to the spawn), no step of the relay touches the
\* supervisor or its readiness loop, and a loop that is still polling when the
\* relay has seen the termination goes on to succeeded or timed-out.
C13_TerminationOnlyReported ==
    /\ [][child' # child => (child = None /\ pc = "spawn" /\ pc' = "lock")]_vars
    /\ [][pc \notin {"start", "spawn"} => pc' # "spawn"]_vars
    /\ [][(relay_pc = "recv" /\ (relay_pc' # relay_pc \/ rcvd' # rcvd)) =>
            UNCHANGED <<pc, child, i, ready, probes, delays, elapsed>>]_vars
    /\ [](TerminatedSeen /\ pc = "probing" =>
            ENABLED (\E resp \in Responses : GateResponse(resp)))
    /\ [](TerminatedSeen /\ pc = "sleeping" => ENABLED GateWake)
    /\ ((TerminatedSeen /\ GatePolling) ~> GateTerminal)

\* The relay reported the termination before the loop sent its second request,
\* and that request was sent all the same.
C13_Witness ==
    /\ TerminatedSeen
    /\ rcvd = 1
    /\ relay_pc = "done"
    /\ pc = "probing" /\ i = 1 /\ probes = 2
    /\ Len(sent) = 1

\* ----------------------------------------------------------------------- C14
\* The relay is suspended in rx.recv() with nothing queued.
RelayWaiting == relay_pc = "recv" /\ rcvd = Len(sent)

\* The readiness loop has been reached and has not ended.
GateRunning == pc \in {"gate", "probing", "sleeping", "after"} /\ ~ready

\* C14: the relay never blocks the readiness loop.  No fairness is asked of
\* the relay or of the sidecar, so the relay may wait for ever for an event
\* that never comes: the loop's own steps stay enabled whatever the relay
\* does, and from any state in which the relay waits the loop still reaches
\* succeeded or timed-out.  Conversely, while the loop is suspended on a
\* request or on the timer the relay can receive what is queued.
C14_RelayNeverBlocksGate ==
    /\ [](pc = "gate" => ENABLED GateEnter)
    /\ [](pc = "probing" => ENABLED (\E resp \in Responses : GateResponse(resp)))
    /\ [](pc = "sleeping" => ENABLED GateWake)
    /\ [](pc = "after" => ENABLED GateReport)
    /\ [](((pc \in {"probing", "sleeping"}) /\ relay_pc = "recv" /\ rcvd < Len(sent))
            => ENABLED RelayRecv)
    /\ ((RelayWaiting /\ GateRunning) ~> GateTerminal)

\* The loop has timed out while the relay still waits for a first event of a
\* sidecar that never wrote anything.
C14_Witness ==
    /\ GateTimedOut
    /\ RelayWaiting
    /\ sent = <<>>
    /\ ~closed

\* ----------------------------------------------------------------------- C15
\* C15: the pid is stored before the relay task is started and before the
\* readiness loop sends its first request: whenever the relay exists, an
\* event has been received, a line has been relayed or a request of the loop
\* has been sent, the slot holds the pid of the spawned child.
C15_PidStoredFirst ==
    (\/ relay_pc # "none"
     \/ rcvd > 0
     \/ Len(SelectSeq(out, IsForwarded)) + Len(SelectSeq(err, IsForwarded)) > 0
     \/ probes > 0
     \/ pc \in {"gate", "probing", "sleeping", "after", "done"})
    => (child # None /\ child_id = child /\ ~lock_held)

\* A line has been relayed and the first request is out, with the pid stored.
C15_Witness ==
    /\ child_id = Some(4711)
    /\ Len(SelectSeq(out, IsForwarded)) = 1
    /\ pc = "probing" /\ probes = 1

\* ----------------------------------------------------------------------- C16
\* The relay receives an event in this step.
RelayReceives == relay_pc = "recv" /\ rcvd' = rcvd + 1

\* The relay ends in this step.
RelayStops == relay_pc = "recv" /\ relay_pc' = "done"

\* C16: an event that is no Stdout, Stderr or Terminated is dropped without a
\* line and the relay receives again; a closed and drained channel ends the
\* relay without a termination line; these two and the termination event are
\* the only ways the relay skips an event or stops.
C16_RelayExits ==
    /\ [][(RelayReceives /\ sent[rcvd + 1].kind \notin {"Stdout", "Stderr", "Terminated"})
            => (out' = out /\ err' = err /\ relay_pc' = "recv")]_vars
    /\ [][(RelayReceives /\ out' = out /\ err' = err)
            => sent[rcvd + 1].kind \notin {"Stdout", "Stderr", "Terminated"}]_vars
    /\ [][RelayStops =>
            \/ /\ RelayReceives
               /\ IsTerminated(sent[rcvd + 1])
               /\ err' = Append(err, RelayLine(sent[rcvd + 1]))
               /\ out' = out
            \/ /\ rcvd' = rcvd
               /\ closed /\ rcvd = Len(sent)
               /\ out' = out /\ err' = err]_vars
    /\ [][relay_pc = "done" => (relay_pc' = "done" /\ rcvd' = rcvd)]_vars
    /\ []((relay_pc = "done" /\ ~TerminatedSeen) =>
            /\ closed /\ rcvd = Len(sent)
            /\ Len(SelectSeq(err, IsTermLine)) = 0
            /\ Len(SelectSeq(out, IsTermLine)) = 0)

\* An Error event was dropped, the line after it was relayed, and the relay
\* ended on the closed channel with no termination line.
C16_Witness ==
    /\ relay_pc = "done" /\ closed
    /\ rcvd = 2
    /\ sent[1].kind = "Error" /\ IsStdout(sent[2])
    /\ Len(SelectSeq(out, IsForwarded)) = 1
    /\ Len(SelectSeq(err, IsForwarded)) = 0
    /\ Len(SelectSeq(err, IsTermLine)) = 0
====
